---- MODULE Spec2Model ----
(***************************************************************************)
(* Model of the storefront scripts of quesec-bikes/webapp:                 *)
(*   - fbt_widget.js : the "frequently bought together" widget             *)
(*   - the review panel controller (loadReviews / submitReview / bind)     *)
(*   - zoom.js       : the gallery mounter (main/thumbnail slider pairs)   *)
(* The three scripts share no state; each has its own specification       *)
(* (SpecFbt, SpecReviews, SpecGallery): a page that carries that script    *)
(* only, the state of the other two staying as on a page without them.     *)
(***************************************************************************)
EXTENDS Integers, Sequences, FiniteSets, TLC

\* ---------------------------------------------------------------- bounds
\* longest items list of an FBT payload
MaxItems == 2
\* add-to-cart clicks followed in one page view
MaxClicks == 1
\* review fetches (GET) followed in one page view
MaxGets == 2
\* review submissions (POST) followed in one page view
MaxPosts == 1
\* highest numbered gallery a served page carries (0 is the primary gallery)
MaxGroup == 1
\* calls of mountAllGalleries followed in one page view
MaxMounts == 2

VARIABLES
  \* ---- FBT widget (fbt_widget.js)
  page,            \* the served page: [root, attr, url, skeleton]
  fbtPc,           \* position of the DOMContentLoaded handler
  rootDisplay,     \* root.style.display
  fbtFetches,      \* variant ids of the GET api-fbt requests issued, in order
  payload,         \* the parsed JSON body (let payload), once received
  all,             \* the items of the payload (const all)
  rows,            \* the .fbt-check inputs in DOM order: [vid, checked]
  saleText,        \* saleEl.textContent
  compText,        \* compEl.textContent
  totalsDisplay,   \* totalsWrap.style.display ("absent": no #fbtTotals)
  addDisabled,     \* addBtn.disabled
  changeListeners, \* 'change' listeners on root
  clickListeners,  \* 'click' listeners on addBtn
  clicks,          \* click events dispatched on addBtn so far
  batch,           \* every batch-add POST issued, in order: [lines, status]
  location,        \* window.location: "product" or "/cart/"
  \* ---- review panel (src/unnamed/part_000)
  rvPage,          \* the served page: [area, layout]
  rvPc,            \* "loading" until DOMContentLoaded, then "ready"
  dataVariant,     \* container().dataset.variant
  content,         \* what the container holds: a template and the GET it came from
  sortValue,       \* #reviews-sort.value
  listeners,       \* listeners attached, per element: [sort, pager, form, write, cancel]
  panel,           \* style.display of [formWrap, listWrap, btnWrite, btnCancel]
  msg,             \* #review-form-msg: [display, danger, success, text]
  gets,            \* every GET issued by loadReviews, in order; an answered one
                   \* keeps only how it ended
  posts,           \* every POST issued by submitReview, in order
  apiCall,         \* the id the last step passed to QSReviews.setVariant; "" when
                   \* the last step was no such call
  \* ---- gallery mounter (zoom.js)
  dom,             \* the served page: [groups, colorBtn]
  swipers,         \* every Swiper instance constructed so far, by id
  mounted,         \* _mounted: the registry of {main, thumbs} pairs
  colorClick,      \* 'click' listeners on a .color-btn: the pair each acts on
  timers,          \* setTimeout(..., 0) callbacks not yet run, oldest first: the pair
                   \* each will reset
  loadResets,      \* window 'load' listeners registered: the pair each will reset
  loadFired,       \* the window 'load' event has fired
  currentColor,    \* the colour shown as current (.value-currentColor)
  mounts,          \* calls of mountAllGalleries so far
  lastMount,       \* how the last mountAllGalleries ended: "none", "returned", "threw"
  libraryThrew     \* the carousel library has thrown in some call so far

fbtVars == <<page, fbtPc, rootDisplay, fbtFetches, payload, all, rows, saleText,
             compText, totalsDisplay, addDisabled, changeListeners, clickListeners,
             clicks, batch, location>>

rvVars == <<rvPage, rvPc, dataVariant, content, sortValue, listeners, panel, msg,
            gets, posts, apiCall>>

galleryVars == <<dom, swipers, mounted, colorClick, timers, loadResets, loadFired, currentColor,
                 mounts, lastMount, libraryThrew>>

vars == <<fbtVars, rvVars, galleryVars>>

\* what the FBT widget never touches
notFbt == <<rvVars, galleryVars>>
\* what the review panel never touches
notRv == <<fbtVars, galleryVars>>
\* what the gallery mounter never touches
notGallery == <<fbtVars, rvVars>>

\* ------------------------------------------------------------ helpers
Range(s) == {s[i] : i \in DOMAIN s}

RECURSIVE SumSeq(_)
\* s.reduce((a,b) => a + b, 0) over a sequence of numbers
SumSeq(s) == IF s = <<>> THEN 0 ELSE SumSeq(SubSeq(s, 1, Len(s) - 1)) + s[Len(s)]

\* all sequences over S of length at most n
SeqsUpTo(S, n) == UNION {[1..k -> S] : k \in 0..n}

\* the fresh state of a #review-form-msg element
FreshMsg == [display |-> "none", danger |-> FALSE, success |-> FALSE, text |-> ""]
\* a container without interactive content
Bare == [sort |-> FALSE, pager |-> FALSE, form |-> FALSE, msg |-> FALSE, toggler |-> FALSE,
         list |-> FALSE]
NoListeners == [sort |-> 0, pager |-> 0, form |-> 0, write |-> 0, cancel |-> 0]
FreshPanel == [formWrap |-> "", listWrap |-> "", btnWrite |-> "", btnCancel |-> ""]

\* the review panel of a page without one, while another script is checked
RvParked ==
  /\ rvPage = [area |-> FALSE, layout |-> "inner"]
  /\ rvPc = "loading"
  /\ dataVariant = ""
  /\ content = [tpl |-> Bare, src |-> 0]
  /\ sortValue = "recent"
  /\ listeners = NoListeners
  /\ panel = FreshPanel
  /\ msg = FreshMsg
  /\ gets = <<>>
  /\ posts = <<>>
  /\ apiCall = ""

\* the gallery of a page without one, while another script is checked
GalleryParked ==
  /\ dom = [groups |-> {}, colorBtn |-> FALSE]
  /\ swipers = <<>>
  /\ mounted = <<>>
  /\ colorClick = <<>>
  /\ timers = <<>>
  /\ loadResets = <<>>
  /\ loadFired = FALSE
  /\ currentColor = ""
  /\ mounts = 0
  /\ lastMount = "none"
  /\ libraryThrew = FALSE

\* ================================================================ FBT
\* Amounts are counted in half rupees, so that a price of Rs 1.50 is 3.
\* The text of an element is <<>> when empty.

\* el.style.display after hide(el) / show(el)
hide == "none"
show == ""

\* inr(n): Math.round of the rupee amount (halves round up), then formatted
inr(n) == <<"INR", (n + 1) \div 2>>

\* getVariantId, had it preferred the URL parameter
getVariantIdUrlFirst(attr, url) == IF url # "" THEN url ELSE attr
\* getVariantId(root): the data attribute, else the URL parameter, else ''
getVariantId(attr, url) == IF attr # "" THEN attr ELSE url

\* The FBT line items a server may return (price, compare_at_price in half
\* rupees; 0 stands for a missing amount as well, Number(x || 0)).
ItemPool ==
  { [variant_id |-> 1, price |-> 3, compare_at_price |-> 5, isMain |-> TRUE],
    [variant_id |-> 2, price |-> 4, compare_at_price |-> 4, isMain |-> FALSE],
    [variant_id |-> 3, price |-> 2, compare_at_price |-> 0, isMain |-> FALSE],
    [variant_id |-> 2, price |-> 1, compare_at_price |-> 6, isMain |-> FALSE] }

\* A parsed JSON body: payload.items is an array or something else
\* (missing, a string, an object), in which case its content is ignored.
Payloads ==
  [isArray : {TRUE}, items : SeqsUpTo(ItemPool, MaxItems)]
    \cup [isArray : {FALSE}, items : {<<>>, <<CHOOSE it \in ItemPool : it.variant_id = 3>>}]

\* const all = Array.isArray(payload.items) ? payload.items : [];
allOf(body) == IF body.isArray THEN body.items ELSE <<>>

linkedOf(items) == SelectSeq(items, LAMBDA x : ~x.isMain)

\* hasLinked, had it looked only at the length of the list
hasLinkedAnyItem(items) == Len(items) > 0
\* hasLinked = linked.length ? true : all.length > 0 && !all.some(x => x._isMain)
hasLinked(items) ==
  IF Len(linkedOf(items)) > 0 THEN TRUE
  ELSE Len(items) > 0 /\ ~(\E i \in DOMAIN items : items[i].isMain)

\* rowHTML: one checked checkbox per item, data-vid = Number(it.variant_id)
rowHTML(it) == [vid |-> it.variant_id, checked |-> TRUE]
renderRows(items) == [i \in DOMAIN items |-> rowHTML(items[i])]

\* qsa('.fbt-check:checked', root).map(c => Number(c.dataset.vid))
checkedVids(rs) ==
  LET sel == SelectSeq(rs, LAMBDA r : r.checked)
  IN  [i \in DOMAIN sel |-> sel[i].vid]

\* all.filter(r => vids.includes(Number(r.variant_id)))
picked(items, vids) == SelectSeq(items, LAMBDA r : r.variant_id \in Range(vids))

\* picked.reduce((a,b) => a + Number(b.price || 0), 0)
sumSaleOf(pk) == SumSeq([i \in DOMAIN pk |-> pk[i].price])
\* picked.reduce((a,b) => a + Number(b.compare_at_price || 0), 0)
sumCompOf(pk) == SumSeq([i \in DOMAIN pk |-> pk[i].compare_at_price])

\* the compare total, had the comparison been >=
compTextNotStrict(sumComp, sumSale) == IF sumComp >= sumSale THEN inr(sumComp) ELSE <<>>
\* compEl.textContent = (sumComp > sumSale) ? inr(sumComp) : ''
compTextOf(sumComp, sumSale) == IF sumComp > sumSale THEN inr(sumComp) ELSE <<>>

\* recompute, had it left the button alone
recomputeKeepsButton(items, rs) ==
  LET vids    == checkedVids(rs)
      pk      == picked(items, vids)
      sumSale == sumSaleOf(pk)
      sumComp == sumCompOf(pk)
  IN  /\ saleText' = inr(sumSale)
      /\ compText' = compTextOf(sumComp, sumSale)
      /\ totalsDisplay' = IF totalsDisplay = "absent" THEN "absent" ELSE show
      /\ addDisabled' = addDisabled
\* recompute(), given the payload items and the rows as they are after the event
recompute(items, rs) ==
  LET vids    == checkedVids(rs)
      pk      == picked(items, vids)
      sumSale == sumSaleOf(pk)
      sumComp == sumCompOf(pk)
  IN  /\ saleText' = inr(sumSale)
      /\ compText' = compTextOf(sumComp, sumSale)
      /\ totalsDisplay' = IF totalsDisplay = "absent" THEN "absent" ELSE show
      /\ addDisabled' = (Len(vids) = 0)

InitFbt ==
  /\ page \in [root : BOOLEAN, attr : {"", "7"}, url : {"", "9"}, skeleton : BOOLEAN]
  /\ fbtPc = "loading"
  /\ rootDisplay = show
  /\ fbtFetches = <<>>
  /\ payload = [isArray |-> FALSE, items |-> <<>>]
  /\ all = <<>>
  /\ rows = <<>>
  /\ saleText = <<>>
  /\ compText = <<>>
  /\ totalsDisplay = IF page.root /\ page.skeleton THEN hide ELSE "absent"
  /\ addDisabled = FALSE
  /\ changeListeners = 0
  /\ clickListeners = 0
  /\ clicks = 0
  /\ batch = <<>>
  /\ location = "product"

\* ---- DOMContentLoaded handler, up to the await of the fetch (lines 73-96)
FbtPageReady ==
  /\ UNCHANGED notFbt
  /\ fbtPc = "loading"
  /\ location = "product"
  /\ IF ~page.root
       THEN /\ fbtPc' = "noRoot"
            /\ UNCHANGED <<rootDisplay, fbtFetches>>
       ELSE IF getVariantId(page.attr, page.url) = ""
         THEN /\ rootDisplay' = hide
              /\ fbtPc' = "noVariant"
              /\ UNCHANGED fbtFetches
         ELSE /\ fbtFetches' = Append(fbtFetches, getVariantId(page.attr, page.url))
              /\ fbtPc' = "fetching"
              /\ UNCHANGED rootDisplay
  /\ UNCHANGED <<page, payload, all, rows, saleText, compText, totalsDisplay,
                 addDisabled, changeListeners, clickListeners, clicks, batch, location>>

FetchFailures == {"networkError", "notOk", "badJson"}

\* the handler, had it lacked "if (!res.ok) throw 0"
FbtFetchFailOpen(kind) ==
  /\ UNCHANGED notFbt
  /\ fbtPc = "fetching"
  /\ location = "product"
  /\ rootDisplay' = IF kind = "notOk" THEN rootDisplay ELSE hide
  /\ fbtPc' = "fetchFailed"
  /\ UNCHANGED <<page, fbtFetches, payload, all, rows, saleText, compText,
                 totalsDisplay, addDisabled, changeListeners, clickListeners, clicks,
                 batch, location>>
\* ---- the fetch rejects, res.ok is false or res.json() rejects: the catch
\*      block hides the root and returns (lines 92-101)
FbtFetchFail(kind) ==
  /\ UNCHANGED notFbt
  /\ fbtPc = "fetching"
  /\ location = "product"
  /\ rootDisplay' = hide
  /\ fbtPc' = "fetchFailed"
  /\ UNCHANGED <<page, fbtFetches, payload, all, rows, saleText, compText,
                 totalsDisplay, addDisabled, changeListeners, clickListeners, clicks,
                 batch, location>>

\* ---- the fetch answers 2xx with a JSON body: the rest of the handler
\*      (lines 103-161: hasLinked check, render, recompute, listeners)
FbtFetchOk(body) ==
  /\ UNCHANGED notFbt
  /\ fbtPc = "fetching"
  /\ location = "product"
  /\ payload' = body
  /\ all' = allOf(body)
  /\ IF ~hasLinked(all')
       THEN /\ rootDisplay' = hide
            /\ fbtPc' = "noLinked"
            /\ UNCHANGED <<rows, saleText, compText, totalsDisplay, addDisabled,
                           changeListeners, clickListeners>>
       ELSE /\ rows' = renderRows(all')
            /\ recompute(all', rows')
            /\ changeListeners' = changeListeners + 1
            /\ clickListeners' = clickListeners + 1
            /\ fbtPc' = "ready"
            /\ UNCHANGED rootDisplay
  /\ UNCHANGED <<page, fbtFetches, clicks, batch, location>>

\* ---- the user toggles checkbox i; its change event bubbles to root, whose
\*      listener runs recompute (lines 137-139)
FbtToggleCheck(i) ==
  /\ UNCHANGED notFbt
  /\ location = "product"
  /\ i \in DOMAIN rows
  /\ rows' = [rows EXCEPT ![i].checked = ~rows[i].checked]
  /\ IF changeListeners > 0
       THEN recompute(all, rows')
       ELSE UNCHANGED <<saleText, compText, totalsDisplay, addDisabled>>
  /\ UNCHANGED <<page, fbtPc, rootDisplay, fbtFetches, payload, all, changeListeners,
                 clickListeners, clicks, batch, location>>

\* lines of the POST body: qsa('.fbt-check:checked').map(c => ({variant_id, qty: 1}))
linesOf(rs) ==
  LET vids == checkedVids(rs)
  IN  [i \in DOMAIN vids |-> [variant_id |-> vids[i], qty |-> 1]]

\* the #fbtAddBtn element is in the DOM: served with the skeleton, or rendered
addBtnInDom == page.root /\ (page.skeleton \/ fbtPc = "ready")

\* ---- a click event on addBtn: up to the await of the POST (lines 142-157)
FbtClickAdd ==
  /\ UNCHANGED notFbt
  /\ location = "product"
  /\ addBtnInDom
  /\ clicks < MaxClicks
  /\ clicks' = clicks + 1
  /\ IF clickListeners = 0 \/ linesOf(rows) = <<>>
       THEN UNCHANGED batch
       ELSE batch' = Append(batch, [lines |-> linesOf(rows), status |-> "pending"])
  /\ UNCHANGED <<page, fbtPc, rootDisplay, fbtFetches, payload, all, rows, saleText,
                 compText, totalsDisplay, addDisabled, changeListeners, clickListeners,
                 location>>

BatchAnswers == {"ok", "notOk", "networkError"}

\* the click handler, had it lacked "if (!r.ok) throw 0"
FbtBatchResponseNoOkCheck(k, answer) ==
  /\ UNCHANGED notFbt
  /\ location = "product"
  /\ k \in DOMAIN batch
  /\ batch[k].status = "pending"
  /\ batch' = [batch EXCEPT ![k].status = IF answer = "ok" THEN "ok" ELSE "failed"]
  /\ location' = IF answer # "networkError" THEN "/cart/" ELSE location
  /\ UNCHANGED <<page, fbtPc, rootDisplay, fbtFetches, payload, all, rows, saleText,
                 compText, totalsDisplay, addDisabled, changeListeners, clickListeners,
                 clicks>>
\* ---- the answer to POST k: navigate on r.ok, else the empty catch
\*      (lines 158-160); a non-ok status and a rejected fetch both count as
\*      "failed"
FbtBatchResponse(k, answer) ==
  /\ UNCHANGED notFbt
  /\ location = "product"
  /\ k \in DOMAIN batch
  /\ batch[k].status = "pending"
  /\ batch' = [batch EXCEPT ![k].status = IF answer = "ok" THEN "ok" ELSE "failed"]
  /\ location' = IF answer = "ok" THEN "/cart/" ELSE location
  /\ UNCHANGED <<page, fbtPc, rootDisplay, fbtFetches, payload, all, rows, saleText,
                 compText, totalsDisplay, addDisabled, changeListeners, clickListeners,
                 clicks>>

NextFbt ==
  \/ FbtPageReady
  \/ \E kind \in FetchFailures : FbtFetchFail(kind)
  \/ \E body \in Payloads : FbtFetchOk(body)
  \/ \E i \in 1..MaxItems : FbtToggleCheck(i)
  \/ FbtClickAdd
  \/ \E k \in 1..MaxClicks, answer \in BatchAnswers : FbtBatchResponse(k, answer)

\* the FBT widget of a page without one, while another script is checked
FbtParked ==
  /\ page = [root |-> FALSE, attr |-> "", url |-> "", skeleton |-> FALSE]
  /\ fbtPc = "loading"
  /\ rootDisplay = show
  /\ fbtFetches = <<>>
  /\ payload = [isArray |-> FALSE, items |-> <<>>]
  /\ all = <<>>
  /\ rows = <<>>
  /\ saleText = <<>>
  /\ compText = <<>>
  /\ totalsDisplay = "absent"
  /\ addDisabled = FALSE
  /\ changeListeners = 0
  /\ clickListeners = 0
  /\ clicks = 0
  /\ batch = <<>>
  /\ location = "product"

\* a page that carries only the FBT widget
InitFbtPage == InitFbt /\ RvParked /\ GalleryParked

SpecFbt == InitFbtPage /\ [][NextFbt]_vars

\* ------------------------------------------------------- FBT properties
RECURSIVE SumOver(_, _)
\* the sum of f[i] over the indices i of the finite set S
SumOver(S, f) ==
  IF S = {} THEN 0
  ELSE LET i == CHOOSE j \in S : TRUE IN f[i] + SumOver(S \ {i}, f)

\* the rows whose checkbox is checked, by position
CheckedRows == {i \in DOMAIN rows : rows[i].checked}
\* the data model's requirement: variant_id identifies an item of the set
DistinctVariantIds ==
  \A i, j \in DOMAIN all : all[i].variant_id = all[j].variant_id => i = j

\* C1: once the widget is rendered, and after any checkbox changes, for a
\* payload with pairwise distinct variant ids the sale total shown is the
\* (formatted) sum of price over exactly the checked rows, and the compare
\* total is non-empty exactly when the sum of compare_at_price over the
\* checked rows is strictly greater than that sum of price.
C1_TotalsFollowSelection ==
  (fbtPc = "ready" /\ DistinctVariantIds) =>
    LET sale == SumOver(CheckedRows, [i \in DOMAIN all |-> all[i].price])
        comp == SumOver(CheckedRows, [i \in DOMAIN all |-> all[i].compare_at_price])
    IN  /\ DOMAIN rows = DOMAIN all
        /\ saleText = inr(sale)
        /\ (compText # <<>>) <=> (comp > sale)

\* C1 witness: a rendered widget in which one row has been unchecked, the
\* other is still checked and the compare total is shown.
C1_Witness ==
  /\ fbtPc = "ready"
  /\ DistinctVariantIds
  /\ \E i, j \in DOMAIN rows : rows[i].checked /\ ~rows[j].checked
  /\ compText # <<>>

\* the payload carries no linked item: items empty, missing or not an array,
\* or every item flagged _isMain
NoLinkedItems ==
  \/ ~payload.isArray
  \/ \A i \in DOMAIN payload.items : payload.items[i].isMain

\* C2: for a payload received with a success status that carries no linked
\* item, the root ends hidden, no row is rendered and no change or click
\* listener is attached; if some item is not flagged _isMain the widget is
\* not hidden by this check.
C2_HiddenIffNoLinkedItems ==
  (fbtPc \in {"noLinked", "ready"}) =>
    /\ NoLinkedItems =>
         /\ rootDisplay = hide
         /\ rows = <<>>
         /\ changeListeners = 0
         /\ clickListeners = 0
    /\ ~NoLinkedItems => (fbtPc = "ready" /\ rootDisplay # hide)

\* C2 witness: a non-empty items array whose every item is flagged _isMain
\* has been received.
C2_Witness ==
  /\ fbtPc = "noLinked"
  /\ payload.isArray
  /\ payload.items # <<>>
  /\ rootDisplay = hide

\* C8: after a failed FBT data fetch (network error, non-success status,
\* unparseable body) the root is hidden, no row is rendered, no listener is
\* attached and no batch-add request is ever issued.
C8_FetchFailureFailsClosed ==
  (fbtPc = "fetchFailed") =>
    /\ rootDisplay = hide
    /\ rows = <<>>
    /\ changeListeners = 0
    /\ clickListeners = 0
    /\ batch = <<>>

\* C8 witness: the fetch has failed and the served button has been clicked
\* afterwards.
C8_Witness == fbtPc = "fetchFailed" /\ addBtnInDom /\ clicks > 0

\* C9: the source variant id is the data attribute, else the URL parameter;
\* with neither, the root is hidden, no fetch is issued, and nothing later
\* shows the widget or issues a request.
C9_VariantResolution ==
  (page.root /\ fbtPc # "loading") =>
    IF page.attr = "" /\ page.url = ""
      THEN /\ fbtPc = "noVariant"
           /\ rootDisplay = hide
           /\ fbtFetches = <<>>
           /\ batch = <<>>
      ELSE fbtFetches = << IF page.attr # "" THEN page.attr ELSE page.url >>

\* C9 witness: no variant id was found and the served button has been
\* clicked afterwards.
C9_Witness == fbtPc = "noVariant" /\ addBtnInDom /\ clicks > 0

\* a click event was dispatched on the add-to-cart button in this step
Clicked == clicks' = clicks + 1
\* request k was answered with a failure in this step
FailedNow(k) ==
  /\ k \in DOMAIN batch
  /\ batch[k].status = "pending"
  /\ batch'[k].status = "failed"

\* C10, the click: with the handler attached and at least one row checked,
\* exactly one POST is added, whose lines are the checked rows' variant ids
\* with qty 1; with no row checked no request is sent.
C10_ClickSendsSelection ==
  (Clicked /\ clickListeners > 0) =>
    IF CheckedRows = {}
      THEN batch' = batch
      ELSE /\ Len(batch') = Len(batch) + 1
           /\ SubSeq(batch', 1, Len(batch)) = batch
           /\ LET sent == batch'[Len(batch')].lines
              IN  /\ Len(sent) = Cardinality(CheckedRows)
                  /\ \A n \in DOMAIN sent : sent[n].qty = 1
                  /\ \E f \in [DOMAIN sent -> CheckedRows] :
                        /\ \A a, b \in DOMAIN sent : f[a] = f[b] => a = b
                        /\ \A n \in DOMAIN sent : sent[n].variant_id = rows[f[n]].vid

\* C10, the failure: nothing the user sees changes and nothing navigates.
C10_FailureIsSilent ==
  (\E k \in DOMAIN batch : FailedNow(k)) =>
    UNCHANGED <<location, rootDisplay, rows, saleText, compText, totalsDisplay,
                addDisabled>>

\* C10, the navigation: the page is at /cart/ iff some POST was answered ok.
C10_NavigatedIffOk ==
  (location = "/cart/") <=> (\E k \in DOMAIN batch : batch[k].status = "ok")

C16_AddDisabledIffNoneChecked ==
  fbtPc = "ready" =>
    /\ Len(rows) > 0
    /\ addDisabled <=> (CheckedRows = {})
    /\ rows = renderRows(all) => (CheckedRows = DOMAIN rows /\ ~addDisabled)

\* C16 witness: both rows of a rendered widget have been unchecked and the
\* button is disabled.
C16_Witness ==
  /\ fbtPc = "ready"
  /\ Len(rows) = 2
  /\ CheckedRows = {}
  /\ addDisabled

\* ======================================================== review panel
Sorts == {"recent", "top"}
Variants == {"v1", "v2"}
\* data-slug of the container
Slug == "bike"

\* What the server may put in the container.  With the "inner" layout the
\* sort select and the review form (with its message element) are part of
\* the container's HTML; with the "outer" layout they stand outside it and
\* survive every replacement.  toggler: the write and cancel buttons with
\* the form section they switch (.form-write-review); list: the comments
\* list they switch with it (.cancel-review-wrap).
Templates(layout) ==
  IF layout = "inner"
    THEN { [sort |-> TRUE,  pager |-> TRUE,  form |-> TRUE,  msg |-> TRUE,  toggler |-> TRUE,
            list |-> TRUE],
           [sort |-> TRUE,  pager |-> FALSE, form |-> TRUE,  msg |-> TRUE,  toggler |-> TRUE,
            list |-> FALSE],
           [sort |-> FALSE, pager |-> TRUE,  form |-> TRUE,  msg |-> FALSE, toggler |-> FALSE,
            list |-> FALSE],
           Bare }
    ELSE { [sort |-> FALSE, pager |-> TRUE,  form |-> FALSE, msg |-> FALSE, toggler |-> TRUE,
            list |-> TRUE],
           Bare }

\* document.getElementById('reviews-sort') / ('review-form') / ('review-form-msg')
sortEl(tpl) == rvPage.layout = "outer" \/ tpl.sort
formEl(tpl) == rvPage.layout = "outer" \/ tpl.form
msgEl(tpl)  == rvPage.layout = "outer" \/ tpl.msg

\* addEventListener, had it added a listener that is already registered
addNamedAgain(n) == n + 1
\* el.addEventListener(type, f) with a named function f: a listener that is
\* already registered is not added again
addNamed(n) == IF n = 0 THEN 1 ELSE n
\* el.addEventListener(type, function(e){...}): a new closure each time
addClosure(n) == n + 1

CollapsedPanel == [formWrap |-> "none", listWrap |-> "", btnWrite |-> "", btnCancel |-> "none"]
ExpandedPanel  == [formWrap |-> "", listWrap |-> "none", btnWrite |-> "none", btnCancel |-> ""]

\* toggleReviewForm(show) on a container holding tpl, whose sections show as P
toggleReviewForm(showForm, tpl, P) ==
  IF ~rvPage.area THEN P
  ELSE IF ~tpl.toggler THEN P
  ELSE [(IF showForm THEN ExpandedPanel ELSE CollapsedPanel)
          EXCEPT !.listWrap = IF tpl.list THEN @ ELSE P.listWrap]

\* bindHandlers, had it left the pager out
bindHandlersNoPager(tpl, L) ==
  IF ~rvPage.area THEN L
  ELSE [sort   |-> IF sortEl(tpl) THEN addNamed(L.sort) ELSE L.sort,
        pager  |-> L.pager,
        form   |-> IF formEl(tpl) THEN addNamed(L.form) ELSE L.form,
        write  |-> IF tpl.toggler THEN addClosure(L.write) ELSE L.write,
        cancel |-> IF tpl.toggler THEN addClosure(L.cancel) ELSE L.cancel]
\* bindHandlers(): the listeners after it, from the listeners L before it
bindHandlers(tpl, L) ==
  IF ~rvPage.area THEN L
  ELSE [sort   |-> IF sortEl(tpl) THEN addNamed(L.sort) ELSE L.sort,
        pager  |-> IF tpl.pager THEN addNamed(L.pager) ELSE L.pager,
        form   |-> IF formEl(tpl) THEN addNamed(L.form) ELSE L.form,
        write  |-> IF tpl.toggler THEN addClosure(L.write) ELSE L.write,
        cancel |-> IF tpl.toggler THEN addClosure(L.cancel) ELSE L.cancel]

\* bindHandlers(): "initial: hide form, show list (if both exist)"
bindPanel(tpl, P) ==
  IF rvPage.area /\ tpl.toggler /\ tpl.list THEN toggleReviewForm(FALSE, tpl, P) ELSE P

\* container().innerHTML = html: the elements inside the container are new
\* ones, without listeners and in their served state
replacedListeners(L) ==
  [sort   |-> IF rvPage.layout = "outer" THEN L.sort ELSE 0,
   pager  |-> 0,
   form   |-> IF rvPage.layout = "outer" THEN L.form ELSE 0,
   write  |-> 0,
   cancel |-> 0]

\* the request loadReviews(params) issues; sortParam "" and pageParam 0
\* stand for a missing (falsy) parameter
requestOf(sortParam, pageParam, collapse) ==
  [slug     |-> IF rvPage.area THEN Slug ELSE "undefined",
   variant  |-> IF rvPage.area THEN dataVariant' ELSE "undefined",
   sort     |-> IF sortParam # "" THEN sortParam
                ELSE IF sortEl(content.tpl) THEN sortValue ELSE "recent",
   page     |-> IF pageParam # 0 THEN pageParam ELSE 1,
   collapse |-> collapse,
   status   |-> "pending"]

\* n copies of x, one per listener that runs
Copies(n, x) == [i \in 1..n |-> x]

PendingPosts == Cardinality({k \in DOMAIN posts : posts[k].status = "pending"})
\* room for n more GETs, keeping one for the reload of each pending POST
GetRoom(n) == Len(gets) + PendingPosts + n <= MaxGets

InitRv ==
  /\ rvPage \in [area : BOOLEAN, layout : {"inner", "outer"}]
  /\ rvPc = "loading"
  /\ dataVariant = "v1"
  /\ content \in [tpl : IF rvPage.area THEN Templates(rvPage.layout) ELSE {Bare}, src : {0}]
  /\ sortValue = "recent"
  /\ listeners = NoListeners
  /\ panel = FreshPanel
  /\ msg = FreshMsg
  /\ gets = <<>>
  /\ posts = <<>>
  /\ apiCall = ""

\* ---- DOMContentLoaded: bindHandlers (line 145)
RvPageReady ==
  /\ UNCHANGED notRv
  /\ apiCall' = ""
  /\ rvPc = "loading"
  /\ rvPc' = "ready"
  /\ listeners' = bindHandlers(content.tpl, listeners)
  /\ panel' = bindPanel(content.tpl, panel)
  /\ UNCHANGED <<rvPage, dataVariant, content, sortValue, msg, gets, posts>>

\* ---- the user picks sort v: every 'change' listener runs onSortChange
RvSortChange(v) ==
  /\ UNCHANGED notRv
  /\ apiCall' = ""
  /\ sortEl(content.tpl)
  /\ GetRoom(listeners.sort)
  /\ sortValue' = v
  /\ UNCHANGED dataVariant
  /\ gets' = gets \o Copies(listeners.sort, requestOf(v, 1, FALSE))
  /\ UNCHANGED <<rvPage, rvPc, content, listeners, panel, msg, posts>>

\* ---- a click inside the pager, on a page link (onLink) leading to page p
\*      (0: the link carries no page parameter) or beside the links
RvPaginate(onLink, p) ==
  /\ UNCHANGED notRv
  /\ apiCall' = ""
  /\ content.tpl.pager
  /\ GetRoom(listeners.pager)
  /\ UNCHANGED dataVariant
  /\ IF onLink
       THEN gets' = gets \o Copies(listeners.pager, requestOf("", p, FALSE))
       ELSE UNCHANGED gets
  /\ UNCHANGED <<rvPage, rvPc, content, sortValue, listeners, panel, msg, posts>>

\* ---- a submit event on the review form: submitReview up to the await of
\*      the POST (lines 29-37)
RvSubmit ==
  /\ UNCHANGED notRv
  /\ apiCall' = ""
  /\ formEl(content.tpl)
  /\ Len(posts) + listeners.form <= MaxPosts
  /\ GetRoom(listeners.form)
  /\ posts' = posts \o Copies(listeners.form, [status |-> "pending"])
  /\ UNCHANGED <<rvPage, rvPc, dataVariant, content, sortValue, listeners, panel, msg, gets>>

\* how a POST may end: 2xx; a failure status with {"error": "..."}; with
\* JSON that carries no error string; with a body that is not JSON; or the
\* fetch rejects
PostAnswers == {"ok", "errorWithText", "errorNoText", "badJson", "networkError"}

\* the parsed body, had the catch returned an empty object
parsedJsonNoFallback(answer) ==
  IF answer = "errorWithText" THEN [error |-> "Rating is required."]
  ELSE [error |-> ""]
\* const data = await res.json().catch(()=>({error:'Error'}))
parsedJson(answer) ==
  IF answer = "errorWithText" THEN [error |-> "Rating is required."]
  ELSE IF answer = "badJson" THEN [error |-> "Error"]
  ELSE [error |-> ""]

\* msg.textContent = data.error || 'Something went wrong.'
errorTextOf(data) == IF data.error # "" THEN data.error ELSE "Something went wrong."

\* the reload, had it been loadReviews() with the sort and page left out
reloadKeepsSort == requestOf("", 0, TRUE)
\* await loadReviews({ sort: 'recent', page: 1 }) of submitReview (line 46),
\* followed by toggleReviewForm(false) once it has completed
reloadAfterSubmit == requestOf("recent", 1, TRUE)

\* the answer to POST k, had submitReview collapsed the form before its reload
RvPostResponseCollapsesFirst(k, answer) ==
  /\ UNCHANGED notRv
  /\ apiCall' = ""
  /\ k \in DOMAIN posts
  /\ posts[k].status = "pending"
  /\ posts' = [posts EXCEPT ![k].status = answer]
  /\ UNCHANGED dataVariant
  /\ IF answer = "networkError"
       THEN UNCHANGED <<msg, gets, panel>>
       ELSE IF answer = "ok"
         THEN /\ msg' = IF msgEl(content.tpl)
                          THEN [display |-> "block", danger |-> FALSE, success |-> TRUE,
                                text |-> "Thanks! Your review has been submitted."]
                          ELSE msg
              /\ panel' = toggleReviewForm(FALSE, content.tpl, panel)
              /\ gets' = Append(gets, requestOf("recent", 1, FALSE))
         ELSE /\ msg' = IF msgEl(content.tpl)
                          THEN [display |-> "block", danger |-> TRUE, success |-> FALSE,
                                text |-> errorTextOf(parsedJson(answer))]
                          ELSE msg
              /\ UNCHANGED <<gets, panel>>
  /\ UNCHANGED <<rvPage, rvPc, content, sortValue, listeners>>
\* ---- the answer to POST k: the rest of submitReview up to its next await
\*      (lines 38-46 on res.ok, lines 50-55 otherwise)
RvPostResponse(k, answer) ==
  /\ UNCHANGED notRv
  /\ apiCall' = ""
  /\ k \in DOMAIN posts
  /\ posts[k].status = "pending"
  /\ posts' = [posts EXCEPT ![k].status = answer]
  /\ UNCHANGED dataVariant
  /\ IF answer = "networkError"
       THEN UNCHANGED <<msg, gets>>
       ELSE IF answer = "ok"
         THEN /\ msg' = IF msgEl(content.tpl)
                          THEN [display |-> "block", danger |-> FALSE, success |-> TRUE,
                                text |-> "Thanks! Your review has been submitted."]
                          ELSE msg
              /\ gets' = Append(gets, reloadAfterSubmit)
         ELSE /\ msg' = IF msgEl(content.tpl)
                          THEN [display |-> "block", danger |-> TRUE, success |-> FALSE,
                                text |-> errorTextOf(parsedJson(answer))]
                          ELSE msg
              /\ UNCHANGED gets
  /\ UNCHANGED <<rvPage, rvPc, content, sortValue, listeners, panel>>

\* ---- the fetch of GET k rejects: loadReviews ends with that rejection, and
\*      so does the submitReview awaiting it (lines 23, 46)
RvGetRejected(k) ==
  /\ UNCHANGED notRv
  /\ apiCall' = ""
  /\ k \in DOMAIN gets
  /\ gets[k].status = "pending"
  /\ gets' = [gets EXCEPT ![k] = [status |-> "failed"]]
  /\ UNCHANGED <<rvPage, rvPc, dataVariant, content, sortValue, listeners, panel, msg, posts>>

\* the answer to GET k, had loadReviews dropped the response of a request
\* that is no longer the latest one
RvGetResponseLatestOnly(k, tpl, v) ==
  /\ UNCHANGED notRv
  /\ apiCall' = ""
  /\ k \in DOMAIN gets
  /\ gets[k].status = "pending"
  /\ tpl.sort \/ v = "recent"
  /\ IF ~rvPage.area
       THEN /\ gets' = [gets EXCEPT ![k] = [status |-> "threw"]]
            /\ UNCHANGED <<content, sortValue, listeners, panel, msg>>
       ELSE IF k < Len(gets)
         THEN /\ gets' = [gets EXCEPT ![k] = [status |-> "dropped"]]
              /\ UNCHANGED <<content, sortValue, listeners, panel, msg>>
         ELSE /\ gets' = [gets EXCEPT ![k] = [status |-> "applied"]]
              /\ content' = [tpl |-> tpl, src |-> k]
              /\ sortValue' = IF rvPage.layout = "outer" THEN sortValue ELSE v
              /\ msg' = IF rvPage.layout = "outer" THEN msg ELSE FreshMsg
              /\ listeners' = bindHandlers(tpl, replacedListeners(listeners))
              /\ panel' = LET bound == bindPanel(tpl, FreshPanel)
                          IN  IF gets[k].collapse
                                THEN toggleReviewForm(FALSE, tpl, bound)
                                ELSE bound
  /\ UNCHANGED <<rvPage, rvPc, dataVariant, posts>>
\* ---- the answer to GET k, whatever its status, with content tpl whose sort
\*      select (when it has one) shows v: the rest of loadReviews (lines
\*      24-26) and, for the reload of submitReview, its
\*      toggleReviewForm(false) (line 48)
RvGetResponse(k, tpl, v) ==
  /\ UNCHANGED notRv
  /\ apiCall' = ""
  /\ k \in DOMAIN gets
  /\ gets[k].status = "pending"
  /\ tpl.sort \/ v = "recent"
  /\ IF ~rvPage.area
       THEN /\ gets' = [gets EXCEPT ![k] = [status |-> "threw"]]
            /\ UNCHANGED <<content, sortValue, listeners, panel, msg>>
       ELSE /\ gets' = [gets EXCEPT ![k] = [status |-> "applied"]]
            /\ content' = [tpl |-> tpl, src |-> k]
            /\ sortValue' = IF rvPage.layout = "outer" THEN sortValue ELSE v
            /\ msg' = IF rvPage.layout = "outer" THEN msg ELSE FreshMsg
            /\ listeners' = bindHandlers(tpl, replacedListeners(listeners))
            /\ panel' = LET bound == bindPanel(tpl, FreshPanel)
                        IN  IF gets[k].collapse
                              THEN toggleReviewForm(FALSE, tpl, bound)
                              ELSE bound
  /\ UNCHANGED <<rvPage, rvPc, dataVariant, posts>>

\* ---- a click on the write (showForm) or the cancel button
RvToggleClick(showForm) ==
  /\ UNCHANGED notRv
  /\ apiCall' = ""
  /\ content.tpl.toggler
  /\ panel' = IF (IF showForm THEN listeners.write ELSE listeners.cancel) > 0
                THEN toggleReviewForm(showForm, content.tpl, panel)
                ELSE panel
  /\ UNCHANGED <<rvPage, rvPc, dataVariant, content, sortValue, listeners, msg, gets, posts>>

\* ---- another script takes #reviews-area out of the document once the
\*      page is ready: container() (lines 9-11) looks the element up anew at
\*      every call and returns null from then on.  What stood inside the
\*      container is gone with it; a sort select or form outside it stays,
\*      with its listener.
RvContainerRemoved ==
  /\ UNCHANGED notRv
  /\ apiCall' = ""
  /\ rvPc = "ready"
  /\ rvPage.area
  /\ rvPage' = [rvPage EXCEPT !.area = FALSE]
  /\ content' = [tpl |-> Bare, src |-> 0]
  /\ listeners' = replacedListeners(listeners)
  /\ panel' = FreshPanel
  /\ sortValue' = IF rvPage.layout = "outer" THEN sortValue ELSE "recent"
  /\ msg' = IF rvPage.layout = "outer" THEN msg ELSE FreshMsg
  /\ UNCHANGED <<rvPc, dataVariant, gets, posts>>

\* setVariant, had it called loadReviews() without the sort and the page
setVariantKeepsSort(newVariantId) ==
  /\ UNCHANGED notRv
  /\ apiCall' = newVariantId
  /\ GetRoom(1)
  /\ IF ~rvPage.area
       THEN UNCHANGED <<dataVariant, gets>>
       ELSE /\ dataVariant' = newVariantId
            /\ gets' = Append(gets, requestOf("", 0, FALSE))
  /\ UNCHANGED <<rvPage, rvPc, content, sortValue, listeners, panel, msg, posts>>
\* ---- QSReviews.setVariant(newVariantId) (lines 137-142)
setVariant(newVariantId) ==
  /\ UNCHANGED notRv
  /\ apiCall' = newVariantId
  /\ GetRoom(1)
  /\ IF ~rvPage.area
       THEN UNCHANGED <<dataVariant, gets>>
       ELSE /\ dataVariant' = newVariantId
            /\ gets' = Append(gets, requestOf("recent", 1, FALSE))
  /\ UNCHANGED <<rvPage, rvPc, content, sortValue, listeners, panel, msg, posts>>

NextRv ==
  \/ RvPageReady
  \/ \E v \in Sorts : RvSortChange(v)
  \/ \E p \in 0..2 : RvPaginate(TRUE, p)
  \/ RvPaginate(FALSE, 0)
  \/ RvSubmit
  \/ \E k \in 1..MaxPosts, answer \in PostAnswers : RvPostResponse(k, answer)
  \/ \E k \in 1..MaxGets : RvGetRejected(k)
  \/ \E k \in 1..MaxGets, tpl \in Templates(rvPage.layout), v \in Sorts : RvGetResponse(k, tpl, v)
  \/ \E showForm \in BOOLEAN : RvToggleClick(showForm)
  \/ \E newVariantId \in Variants : setVariant(newVariantId)
  \/ RvContainerRemoved

\* a page that carries only the review panel
InitRvPage == InitRv /\ FbtParked /\ GalleryParked

SpecReviews == InitRvPage /\ [][NextRv]_vars

\* ----------------------------------------------- review panel properties
\* POST k is answered with a in this step
PostAnsweredNow(k, a) ==
  /\ k \in DOMAIN posts
  /\ posts[k].status = "pending"
  /\ posts'[k].status = a

PostFailures == {"errorWithText", "errorNoText", "badJson", "networkError"}

\* exactly one GET is issued in this step
OneGetIssued ==
  /\ Len(gets') = Len(gets) + 1
  /\ SubSeq(gets', 1, Len(gets)) = gets

\* C3: when a submission is answered with a success status, the message
\* element (when the page has one) shows with success styling and without
\* error styling, and with that exactly one review fetch is issued, for
\* sort=recent and page=1 and, the container being in the document, its
\* slug and variant; a failed submission issues no fetch.
C3_SuccessShowsMessageThenReloads ==
  [][\A k \in DOMAIN posts :
       /\ PostAnsweredNow(k, "ok") =>
            /\ msgEl(content.tpl) =>
                 (msg'.display = "block" /\ msg'.success /\ ~msg'.danger /\ msg'.text # "")
            /\ OneGetIssued
            /\ LET g == gets'[Len(gets')]
               IN  /\ g.sort = "recent"
                   /\ g.page = 1
                   /\ rvPage.area => (g.slug = Slug /\ g.variant = dataVariant)
                   /\ g.status = "pending"
       /\ (\E a \in PostFailures : PostAnsweredNow(k, a)) => gets' = gets
    ]_vars

\* C3 witness: a submission made while sort "top" was selected has been
\* answered ok; the message shows success and the reload is in flight.
C3_Witness ==
  /\ rvPage.area
  /\ \E k \in DOMAIN posts : posts[k].status = "ok"
  /\ sortValue = "top"
  /\ msg.success /\ msg.display = "block"
  /\ \E n \in DOMAIN gets : gets[n].status = "pending" /\ gets[n].collapse

\* C4 (as claimed): whenever a submission fails, by a rejected fetch or a
\* failure status, the message element ends visible with error styling and
\* a non-empty text.
C4_EveryFailureShowsError ==
  [][\A k \in DOMAIN posts :
       ((\E a \in PostFailures : PostAnsweredNow(k, a)) /\ msgEl(content.tpl)) =>
          (msg'.display = "block" /\ msg'.danger /\ ~msg'.success /\ msg'.text # "")
    ]_vars

\* C5 (as claimed): a failure status with an unparseable body shows the
\* same text as a failure response that carries no error string.
C5_BadJsonShowsSameFallback ==
  [][\A k \in DOMAIN posts :
       (PostAnsweredNow(k, "badJson") /\ msgEl(content.tpl)) =>
          /\ msg'.display = "block" /\ msg'.danger /\ ~msg'.success
          /\ msg'.text = errorTextOf([error |-> ""])
    ]_vars

\* C5 (amended): a failure status with an unparseable body shows, with
\* error styling, the text "Error", the fallback of the failed parse, which
\* is not the text shown for a failure response without an error string.
C5_BadJsonShowsParseFallback ==
  [][\A k \in DOMAIN posts :
       (PostAnsweredNow(k, "badJson") /\ msgEl(content.tpl)) =>
          /\ msg'.display = "block" /\ msg'.danger /\ ~msg'.success
          /\ msg'.text = "Error"
          /\ msg'.text # errorTextOf([error |-> ""])
    ]_vars

\* C5 witness: an unparseable failure body has been answered and shown.
C5_Witness ==
  /\ \E k \in DOMAIN posts : posts[k].status = "badJson"
  /\ msg.display = "block" /\ msg.danger /\ msg.text = "Error"

\* every interactive element the page now has carries its handler
HandlersBound ==
  /\ sortEl(content.tpl) => listeners.sort >= 1
  /\ content.tpl.pager => listeners.pager >= 1
  /\ formEl(content.tpl) => listeners.form >= 1
  /\ content.tpl.toggler => (listeners.write >= 1 /\ listeners.cancel >= 1)

\* C6: once a loadReviews response has been applied to the container, and
\* after any further ones, the sort select, the pager, the form and the
\* write/cancel buttons present carry their handlers, and a change of the
\* sort select then issues a loadReviews request.
C6_HandlersReboundAfterLoad ==
  [][/\ content'.src > 0 => HandlersBound'
     /\ (content.src > 0 /\ content' = content /\ sortValue' # sortValue) =>
          (OneGetIssued /\ gets'[Len(gets')].sort = sortValue')
    ]_vars

\* C6 witness: the content of GET 1 is in place and a click on its pager
\* has issued GET 2 for page 2.
C6_Witness ==
  /\ content.src = 1
  /\ content.tpl.pager
  /\ Len(gets) >= 2
  /\ gets[2].status = "pending"
  /\ gets[2].page = 2

\* C11: a call of QSReviews.setVariant(id) on a page with the container
\* sets the container's variant attribute to id and issues exactly one
\* review fetch, for that id with sort=recent and page=1, whatever sort is
\* selected and whatever page is shown; on a page without the container the
\* call changes nothing and issues no request.
C11_SetVariantReloadsRecent ==
  [][apiCall' # "" =>
       IF rvPage.area
         THEN /\ dataVariant' = apiCall'
              /\ OneGetIssued
              /\ LET g == gets'[Len(gets')]
                 IN  /\ g.variant = apiCall'
                     /\ g.slug = Slug
                     /\ g.sort = "recent"
                     /\ g.page = 1
                     /\ g.status = "pending"
              /\ UNCHANGED <<content, sortValue, listeners, panel, msg, posts>>
         ELSE UNCHANGED <<rvPage, rvPc, dataVariant, content, sortValue, listeners,
                          panel, msg, gets, posts>>
    ]_vars

\* C11 witness: setVariant("v2") was just called while sort "top" was
\* selected and the content of an earlier fetch was shown; the request for
\* v2, recent, page 1 is in flight.
C11_Witness ==
  /\ apiCall = "v2"
  /\ dataVariant = "v2"
  /\ sortValue = "top"
  /\ content.src = 1
  /\ Len(gets) = 2
  /\ gets[2].status = "pending"
  /\ gets[2].variant = "v2" /\ gets[2].sort = "recent" /\ gets[2].page = 1

\* the sections and buttons of the container present show collapsed
Collapsed(tpl, P) ==
  tpl.toggler =>
    /\ P.formWrap = "none"
    /\ P.btnWrite = ""
    /\ P.btnCancel = "none"
    /\ tpl.list => P.listWrap = ""

\* C12: the answer to a submission, success or failure, leaves the form
\* section, the list and the two buttons as they are; the form is
\* collapsed in the step in which the response of the reload issued by the
\* successful submission replaces the container, the container then
\* holding that response; a reload that fails collapses nothing.
C12_CollapseFollowsReload ==
  [][/\ \A k \in DOMAIN posts :
          (\E a \in PostAnswers : PostAnsweredNow(k, a)) => panel' = panel
     /\ \A k \in DOMAIN gets :
          (gets[k].status = "pending" /\ gets[k].collapse) =>
             /\ gets'[k].status = "applied" =>
                  (content'.src = k /\ Collapsed(content'.tpl, panel'))
             /\ gets'[k].status \in {"failed", "threw"} => panel' = panel
    ]_vars

\* C12 witness: the only fetch of the page view is the reload of a
\* successful submission; its response, with the form section but without
\* the comments list (so that bindHandlers collapses nothing), is in the
\* container, and the form section is hidden.
C12_Witness ==
  /\ Len(posts) = 1 /\ posts[1].status = "ok"
  /\ Len(gets) = 1 /\ gets[1].status = "applied"
  /\ content.src = 1
  /\ content.tpl.toggler /\ ~content.tpl.list
  /\ panel.formWrap = "none" /\ panel.btnCancel = "none" /\ panel.btnWrite = ""

\* C13 (as claimed): while the container is missing, no step other than a
\* form submission or its answer issues a review fetch, ends a loadReviews
\* with an error of its own, or changes the container's variant, the
\* content, the listeners or the sections.
C13_MissingContainerIsNoOp ==
  [][(~rvPage.area /\ posts' = posts) =>
       /\ Len(gets') = Len(gets)
       /\ \A k \in DOMAIN gets : gets'[k].status = "threw" => gets[k].status = "threw"
       /\ UNCHANGED <<dataVariant, content, listeners, panel>>
    ]_vars

\* C15: loadReviews has no sequencing guard: on a page with the container,
\* the response to a review fetch replaces the container's content when it
\* arrives, whether or not later fetches have been issued or answered; so
\* the container can end up, all fetches answered, with the response of a
\* request that is not the latest one (the witness).
C15_ResponsesApplyInArrivalOrder ==
  [][\A k \in DOMAIN gets :
       (rvPage.area /\ gets[k].status = "pending"
          /\ gets'[k].status \notin {"pending", "failed"}) =>
            (gets'[k].status = "applied" /\ content'.src = k)
    ]_vars

\* C15 witness: two fetches were issued, the second was answered first, and
\* with both answered the container shows the response of the first.
C15_Witness ==
  /\ rvPage.area
  /\ Len(gets) = 2
  /\ gets[1].status = "applied" /\ gets[2].status = "applied"
  /\ content.src = 1

\* C17: the sort select, the pager and the form never carry more than one
\* listener, and on a ready page with the container each of them present
\* carries exactly one, also when the element stands outside the container
\* and survives its replacement; so no step issues more than one review
\* fetch or more than one POST, and a change of the sort select issues
\* exactly one fetch.
C17_HandlersNeverAccumulate ==
  [][/\ listeners'.sort <= 1 /\ listeners'.pager <= 1 /\ listeners'.form <= 1
     /\ Len(gets') <= Len(gets) + 1
     /\ Len(posts') <= Len(posts) + 1
     /\ (rvPc' = "ready" /\ rvPage'.area) =>
          /\ sortEl(content'.tpl) => listeners'.sort = 1
          /\ content'.tpl.pager => listeners'.pager = 1
          /\ formEl(content'.tpl) => listeners'.form = 1
     /\ (rvPc = "ready" /\ rvPage.area /\ rvPage' = rvPage /\ content' = content
           /\ sortValue' # sortValue) => OneGetIssued
    ]_vars

\* C17 witness: on a page whose sort select and form stand outside the
\* container, after DOMContentLoaded and a completed loadReviews, one
\* submit has issued one POST and one sort change has issued one fetch.
C17_Witness ==
  /\ rvPage.area /\ rvPage.layout = "outer"
  /\ rvPc = "ready"
  /\ content.src = 1
  /\ listeners.sort = 1 /\ listeners.form = 1
  /\ Len(posts) = 1
  /\ Len(gets) = 2
  /\ gets[2].status = "pending" /\ gets[2].sort = "top"
  /\ sortValue = "top"

\* ====================================================== gallery mounter
\* the numbered galleries mountAllGalleries looks for: .thumbs-slider1..4
Numbered == 4
\* selector groups in the order mountAllGalleries visits them: the primary
\* gallery (0), then the numbered ones
GroupOrder == [i \in 1..(Numbered + 1) |-> i - 1]

\* data-color of the slides of the primary gallery, by slide index 0, 1
SlideColors == <<"red", "blue">>
LastSlide == Len(SlideColors) - 1

\* A call into the carousel library that throws during a mount: the
\* construction of the thumbs or of the main slider of a group, or the
\* destroy of the main or of the thumbs slider of a mounted pair of a group.
Faults ==
  {[kind |-> "none", group |-> 0]}
    \cup [kind : {"newThumbs", "newMain", "destroyMain", "destroyThumbs"}, group : 0..MaxGroup]

\* instance.destroy(true, true): dead, its listeners detached; the active
\* index of a dead instance is read by nothing and is kept as 0
destroyed(sw, id) ==
  [sw EXCEPT ![id].alive = FALSE, ![id].onSlideChange = 0, ![id].active = 0]

\* the body of the forEach of destroyMounted for one pair: a throw of
\* main.destroy skips thumbs.destroy, and the catch swallows it (lines 20-23)
destroyPair(sw, pair, fault) ==
  LET g == sw[pair.main].group
  IN  IF fault = [kind |-> "destroyMain", group |-> g] THEN sw
      ELSE LET sw1 == destroyed(sw, pair.main)
           IN  IF fault = [kind |-> "destroyThumbs", group |-> g] THEN sw1
               ELSE destroyed(sw1, pair.thumbs)

RECURSIVE destroyAll(_, _, _)
\* _mounted.forEach(pair => ...) of destroyMounted
destroyAll(sw, pairs, fault) ==
  IF pairs = <<>> THEN sw
  ELSE destroyAll(destroyPair(sw, Head(pairs), fault), Tail(pairs), fault)

\* updateBtn(idx): the colour of slide idx becomes the current one, when the
\* slide carries one (lines 69-79)
updateBtn(idx, cur) ==
  IF idx + 1 \in DOMAIN SlideColors /\ SlideColors[idx + 1] # "" THEN SlideColors[idx + 1] ELSE cur

FreshSwiper(g, role) ==
  [group |-> g, role |-> role, alive |-> TRUE, active |-> 0, onSlideChange |-> 0]

\* initOneGallery(mainSel, thumbsSel, colorSync) for group g, on the working
\* state W of the mount; colorSync is true for the primary gallery only
initOneGallery(W, g, fault) ==
  IF fault = [kind |-> "newThumbs", group |-> g] THEN [W EXCEPT !.thrown = TRUE]
  ELSE
    LET t   == Len(W.sw) + 1
        sw1 == Append(W.sw, FreshSwiper(g, "thumbs"))
    IN  IF fault = [kind |-> "newMain", group |-> g]
          THEN [W EXCEPT !.sw = sw1, !.thrown = TRUE]
          ELSE
            LET m    == t + 1
                sw2  == Append(sw1, [FreshSwiper(g, "main") EXCEPT
                                       !.onSlideChange = IF g = 0 THEN 1 ELSE 0])
                pair == [main |-> m, thumbs |-> t]
            IN  [sw      |-> sw2,
                 mounted |-> Append(W.mounted, pair),
                 color   |-> IF g = 0 /\ dom.colorBtn THEN Append(W.color, pair) ELSE W.color,
                 loads   |-> Append(W.loads, pair),
                 timers  |-> Append(W.timers, pair),
                 cur     |-> IF g = 0 THEN updateBtn(0, W.cur) ELSE W.cur,
                 thrown  |-> FALSE]

RECURSIVE mountGroups(_, _, _)
\* the primary gallery and the numbered.forEach of mountAllGalleries: a
\* group is initialised when both its elements are in the DOM; an exception
\* of initOneGallery ends the mount there (lines 105-122)
mountGroups(W, groups, fault) ==
  IF groups = <<>> \/ W.thrown THEN W
  ELSE IF Head(groups) \in dom.groups
    THEN mountGroups(initOneGallery(W, Head(groups), fault), Tail(groups), fault)
    ELSE mountGroups(W, Tail(groups), fault)

\* the faulty call was reached during this mount: a destroy of a pair of its
\* group in the registry, or a construction that ended the mount
faultHits(sw, pairs, W, fault) ==
  \/ W.thrown
  \/ /\ fault.kind \in {"destroyMain", "destroyThumbs"}
     /\ \E n \in DOMAIN pairs : sw[pairs[n].main].group = fault.group

InitGallery ==
  /\ dom \in [groups : SUBSET (0..MaxGroup), colorBtn : BOOLEAN]
  /\ swipers = <<>>
  /\ mounted = <<>>
  /\ colorClick = <<>>
  /\ timers = <<>>
  /\ loadResets = <<>>
  /\ loadFired = FALSE
  /\ currentColor = ""
  /\ mounts = 0
  /\ lastMount = "none"
  /\ libraryThrew = FALSE

\* ---- mountAllGalleries(): on DOMContentLoaded, then on every
\*      variant:images:updated (lines 101-129)
mountAllGalleries(fault) ==
  /\ UNCHANGED notGallery
  /\ mounts < MaxMounts
  /\ mounts' = mounts + 1
  /\ LET W0 == [sw      |-> destroyAll(swipers, mounted, fault),
                mounted |-> <<>>,
                color   |-> colorClick,
                loads   |-> loadResets,
                timers  |-> timers,
                cur     |-> currentColor,
                thrown  |-> FALSE]
         W  == mountGroups(W0, GroupOrder, fault)
     IN  /\ swipers' = W.sw
         /\ mounted' = W.mounted
         /\ colorClick' = W.color
         /\ loadResets' = W.loads
         /\ timers' = W.timers
         /\ currentColor' = W.cur
         /\ lastMount' = IF W.thrown THEN "threw" ELSE "returned"
         /\ libraryThrew' = (libraryThrew \/ faultHits(swipers, mounted, W, fault))
  /\ UNCHANGED <<dom, loadFired>>

\* instance.slideTo(i, ...) on instance id: a destroyed instance does not
\* move (the library ignores the call or throws)
slideTo(sw, id, i) == IF sw[id].alive THEN [sw EXCEPT ![id].active = i] ELSE sw

\* the 'slideChange' listeners of main run when its active index changed
slideChanged(swBefore, swAfter, id, cur) ==
  IF swAfter[id].active # swBefore[id].active /\ swAfter[id].onSlideChange > 0
    THEN updateBtn(swAfter[id].active, cur)
    ELSE cur

\* resetToFirst(main, thumbs): everything it throws is swallowed (lines 7-15)
resetToFirst(sw, pair) == slideTo(slideTo(sw, pair.main, 0), pair.thumbs, 0)

\* ---- the oldest timer fires (timers of equal delay run in the order they
\*      were set): resetToFirst(main, thumbs) (line 65)
GalleryTimer ==
  /\ UNCHANGED notGallery
  /\ timers # <<>>
  /\ timers' = Tail(timers)
  /\ swipers' = resetToFirst(swipers, Head(timers))
  /\ currentColor' = slideChanged(swipers, swipers', Head(timers).main, currentColor)
  /\ UNCHANGED <<dom, mounted, colorClick, loadResets, loadFired, mounts, lastMount,
                 libraryThrew>>

RECURSIVE resetEach(_, _)
\* the 'load' listeners run in the order they were registered
resetEach(sw, pairs) ==
  IF pairs = <<>> THEN sw
  ELSE resetEach(resetToFirst(sw, Head(pairs)), Tail(pairs))

RECURSIVE colorAfterResets(_, _, _, _)
colorAfterResets(swBefore, swAfter, pairs, cur) ==
  IF pairs = <<>> THEN cur
  ELSE colorAfterResets(swBefore, swAfter, Tail(pairs),
                        slideChanged(swBefore, swAfter, Head(pairs).main, cur))

\* ---- the window 'load' event: every { once: true } listener registered
\*      so far runs resetToFirst and is removed (line 64); a listener
\*      registered after the event stays and never runs
GalleryWindowLoad ==
  /\ UNCHANGED notGallery
  /\ ~loadFired
  /\ loadFired' = TRUE
  /\ loadResets' = <<>>
  /\ swipers' = resetEach(swipers, loadResets)
  /\ currentColor' = colorAfterResets(swipers, swipers', loadResets, currentColor)
  /\ UNCHANGED <<dom, mounted, colorClick, timers, mounts, lastMount, libraryThrew>>

\* the index of the first slide of the primary gallery with data-color col
slideOf(col) == CHOOSE i \in 0..LastSlide : SlideColors[i + 1] = col

RECURSIVE runColorListeners(_, _, _)
\* the click listeners of a .color-btn, in the order they were added: each
\* moves the pair it was created for
runColorListeners(sw, ls, i) ==
  IF ls = <<>> THEN sw
  ELSE runColorListeners(slideTo(slideTo(sw, Head(ls).main, i), Head(ls).thumbs, i), Tail(ls), i)

RECURSIVE colorAfterClick(_, _, _, _)
colorAfterClick(swBefore, swAfter, ls, cur) ==
  IF ls = <<>> THEN cur
  ELSE colorAfterClick(swBefore, swAfter, Tail(ls),
                       slideChanged(swBefore, swAfter, Head(ls).main, cur))

\* ---- a click on the .color-btn of colour col (lines 84-92)
GalleryColorClick(col) ==
  /\ UNCHANGED notGallery
  /\ dom.colorBtn
  /\ 0 \in dom.groups
  /\ swipers' = runColorListeners(swipers, colorClick, slideOf(col))
  /\ currentColor' = colorAfterClick(swipers, swipers', colorClick, currentColor)
  /\ UNCHANGED <<dom, mounted, colorClick, timers, loadResets, loadFired, mounts, lastMount,
                 libraryThrew>>

\* ---- the user moves the main slider id to slide i: its 'slideChange'
\*      listener runs updateBtn(this.activeIndex) (line 81)
GallerySlide(id, i) ==
  /\ UNCHANGED notGallery
  /\ id \in DOMAIN swipers
  /\ swipers[id].role = "main"
  /\ swipers[id].alive
  /\ swipers[id].active # i
  /\ swipers' = slideTo(swipers, id, i)
  /\ currentColor' = slideChanged(swipers, swipers', id, currentColor)
  /\ UNCHANGED <<dom, mounted, colorClick, timers, loadResets, loadFired, mounts, lastMount,
                 libraryThrew>>

NextGallery ==
  \/ \E fault \in Faults : mountAllGalleries(fault)
  \/ GalleryTimer
  \/ GalleryWindowLoad
  \/ \E col \in Range(SlideColors) : GalleryColorClick(col)
  \/ \E id \in DOMAIN swipers, i \in 0..LastSlide : GallerySlide(id, i)

\* a page that carries only the gallery
InitGalleryPage == InitGallery /\ FbtParked /\ RvParked

SpecGallery == InitGalleryPage /\ [][NextGallery]_vars

\* -------------------------------------------------- gallery properties
\* the pairs of the registry that belong to selector group g
PairsOf(g) == {n \in DOMAIN mounted : swipers[mounted[n].main].group = g}
\* the ids of the instances the registry holds
Registered == UNION {{mounted[n].main, mounted[n].thumbs} : n \in DOMAIN mounted}

\* C7 (as claimed): after two or more mounts, with a carousel library that
\* never throws, the registry holds exactly one live pair per selector
\* group of the DOM, every instance of an earlier mount is destroyed, and
\* no listener has accumulated: a colour button carries at most one click
\* listener, which acts on a mounted pair, and only a live main slider of
\* the primary gallery carries a slideChange listener, exactly one.
C7_RemountLeavesOnePairOneListener ==
  (mounts >= 2 /\ ~libraryThrew) =>
    /\ \A g \in dom.groups : Cardinality(PairsOf(g)) = 1
    /\ Len(mounted) = Cardinality(dom.groups)
    /\ \A id \in DOMAIN swipers : swipers[id].alive <=> id \in Registered
    /\ Len(colorClick) <= 1
    /\ \A n \in DOMAIN colorClick : colorClick[n] \in Range(mounted)
    /\ \A id \in DOMAIN swipers :
         swipers[id].onSlideChange =
           IF swipers[id].alive /\ swipers[id].role = "main" /\ swipers[id].group = 0
             THEN 1 ELSE 0

\* C14 (as claimed): whatever the carousel library throws, every call of
\* mountAllGalleries returns normally, with a pair in the registry for every
\* selector group of the DOM except at most the one whose call threw, and
\* the registry holds live, fully constructed pairs only.
C14_LibraryExceptionsSwallowed ==
  mounts > 0 =>
    /\ lastMount = "returned"
    /\ Len(mounted) >= Cardinality(dom.groups) - 1
    /\ \A n \in DOMAIN mounted :
         /\ swipers[mounted[n].main].alive /\ swipers[mounted[n].main].role = "main"
         /\ swipers[mounted[n].thumbs].alive /\ swipers[mounted[n].thumbs].role = "thumbs"

\* C18 (as claimed): the destroyMounted of every mount, whatever the library
\* throws, leaves every main and thumbs slider of the pairs that were in the
\* registry destroyed, and none of them in the registry.
C18_DestroyMountedDestroysAll ==
  [][mounts' = mounts + 1 =>
       \A n \in DOMAIN mounted :
          /\ ~swipers'[mounted[n].main].alive
          /\ ~swipers'[mounted[n].thumbs].alive
          /\ mounted[n].main \notin {mounted'[m].main : m \in DOMAIN mounted'}
          /\ mounted[n].thumbs \notin {mounted'[m].thumbs : m \in DOMAIN mounted'}
    ]_vars

====
